---- MODULE Spec2Model ----
(***************************************************************************)
(* Points ledger of a match-tracking session (backend/routes/matches.js,   *)
(* backend/models/session.js).                                             *)
(*                                                                         *)
(* The state is the stored Session collection; every handler is one atomic *)
(* action: load (findOne), compute in memory, validate and save.           *)
(*                                                                         *)
(* Points are JavaScript numbers.  The smallest step any formula takes is  *)
(* 0.5, so the model keeps every points value as an integer count of half  *)
(* points: Pts(7) is the model value of 7 points, Unit \div 2 of 0.5.      *)
(* Sequences are 1-based: index i of the model is index i-1 of the code.   *)
(***************************************************************************)
EXTENDS Integers, Sequences, FiniteSets, TLC

\* Model units per point (0.5 is one unit).
Unit == 2

Pts(x) == x * Unit

\* -------------------------------------------------------------------------
\* Bounds of the exploration
\* -------------------------------------------------------------------------

\* Most matches the stored collection holds before appends stop being tried.
MaxMatches == 3

Users == {"u1", "u2"}

SessionIds == {"s1", "s2"}

\* Labels used for the free-text fields.
Decks == {"Branded"}

Opps == {"Maliss"}

\* Numeric overrides a request may carry (in points).
CustomPoints == {15}

\* (pointsFormula, pointsStart) of the session that exists initially: the two
\* defaults of session creation and one explicit pointsStart per formula.
SessionConfigs ==
  {<<"rated", Pts(1500)>>, <<"rated", Pts(5)>>, <<"dc", Pts(0)>>, <<"dc", Pts(10)>>}

\* Most matches the two sessions of the accounts specification hold together.
MaxAccountMatches == 2

\* Most matches of a ledger whose stats are read.
MaxStatMatches == 4

\* (pointsFormula, pointsStart) of the sessions whose stats are read.
StatsConfigs == {<<"rated", Pts(1500)>>, <<"dc", Pts(10)>>}

\* The session of the specification whose requests vary the turn: the one a
\* creation request without pointsFormula and pointsStart gives.
TurnsConfigs == {<<"rated", Pts(1500)>>}

\* -------------------------------------------------------------------------
\* Values
\* -------------------------------------------------------------------------

\* customPointsAfter is undefined, null or a number.
Undefined == [kind |-> "undefined", val |-> 0]

Null == [kind |-> "null", val |-> 0]

Num(x) == [kind |-> "number", val |-> x]

\* matchSchema enums.
ResultEnum == {"Win", "Loss"}

TurnEnum == {"1st", "2nd"}

CustomNumbers == {Num(Pts(x)) : x \in CustomPoints}

\* req.body; "" is a missing (or empty) field.  Turns is the set of turn
\* values the requests of a specification carry.
CompleteBodies(Turns) ==
  [deck : Decks, opp : Opps, result : ResultEnum, turn : Turns,
   customPointsAfter : {Undefined} \cup CustomNumbers]

AnyBody ==
  [deck |-> "Branded", opp |-> "Maliss", result |-> "Win", turn |-> "1st",
   customPointsAfter |-> Undefined]

\* Bodies with a field missing.
MissingFieldBodies ==
  {[AnyBody EXCEPT !.deck = ""], [AnyBody EXCEPT !.opp = ""],
   [AnyBody EXCEPT !.result = ""], [AnyBody EXCEPT !.turn = ""]}

\* Bodies with a value outside its enum, or a null override.
InvalidValueBodies ==
  {[AnyBody EXCEPT !.result = "Draw"], [AnyBody EXCEPT !.turn = "3rd"],
   [AnyBody EXCEPT !.customPointsAfter = Null]}

\* Edit bodies that leave deck and opp out and carry any of the other fields.
PartialBodies(Turns) ==
  [deck : {""}, opp : {""}, result : ResultEnum \cup {""}, turn : Turns \cup {""},
   customPointsAfter : {Undefined} \cup CustomNumbers]

AddBodies(Turns) == CompleteBodies(Turns) \cup MissingFieldBodies \cup InvalidValueBodies

EditBodies(Turns) ==
  PartialBodies(Turns) \cup CompleteBodies(Turns)
    \cup {[b EXCEPT !.deck = "", !.opp = ""] : b \in InvalidValueBodies}

VARIABLES
  sessions,   \* the stored Session documents, by _id
  users,      \* stats.totalMatches, stats.wins and stats.losses of every User
  last,       \* the last request handled and its response status
  read,       \* the session whose stats virtual was read last, and its value
  tierItems,  \* the stored TierItem documents, by _id
  tournaments,\* the stored Tournament documents, by _id
  loaded,     \* the Tournament document each register request in flight holds
  recent      \* the answer of the last player-stats read

vars == <<sessions, users, last, read, tierItems, tournaments, loaded, recent>>

\* -------------------------------------------------------------------------
\* Session.findOne({ _id, user })
\* -------------------------------------------------------------------------
\* Mutant: the session is looked up by _id alone.
FindOneById(s, u) == s \in DOMAIN sessions

FindOne(s, u) == s \in DOMAIN sessions /\ sessions[s].user = u

\* Mutant: a locator that names no match resolves to the last match.
FindIndexFromEnd(matches, matchId) ==
  IF matchId \in 1..Len(matches) THEN matchId ELSE Len(matches)

\* session.matches.findIndex(match => match._id.toString() === matchId).
\* Every subdocument has its own _id, so a locator names at most one
\* position: matchId is modelled by the position it resolves to, and a
\* locator that names no match of the session gives 0 (the code's -1).
FindIndex(matches, matchId) ==
  IF matchId \in 1..Len(matches) THEN matchId ELSE 0

\* -------------------------------------------------------------------------
\* matchSchema validation run by session.save()
\* -------------------------------------------------------------------------
\* Mutant: only the required fields are validated, not the enums.
MatchValidatesRequired(m) ==
  /\ m.deck # ""
  /\ m.opp # ""
  /\ m.result # ""
  /\ m.turn # ""
  /\ m.customPointsAfter.kind # "null"

MatchValidates(m) ==
  /\ m.deck # ""
  /\ m.opp # ""
  /\ m.result \in ResultEnum
  /\ m.turn \in TurnEnum
  /\ m.customPointsAfter.kind # "null"

Validates(matches) == \A i \in 1..Len(matches) : MatchValidates(matches[i])

\* The response: the operation, its HTTP status and, when it succeeded, the
\* session it wrote, the position of the match it is about and the override
\* the request carried.
Respond(op, status, sid, idx, custom) ==
  /\ last' = [op |-> op, status |-> status, sid |-> sid, idx |-> idx, custom |-> custom]
  /\ UNCHANGED <<read, tierItems, tournaments, loaded, recent>>

Fail(op, status) ==
  /\ Respond(op, status, "", 0, Undefined)
  /\ UNCHANGED <<sessions, users>>

\* -------------------------------------------------------------------------
\* sessionSchema.post('save'): the owner's statistics are recomputed from the
\* owner's active sessions.  Of user.stats the model keeps totalMatches, wins
\* and losses.
\* -------------------------------------------------------------------------

\* Session.find({ user, isActive: true }) on the given collection.
ActiveSessions(store, u) ==
  {s \in DOMAIN store : store[s].user = u /\ store[s].isActive}

\* The matches of the given sessions, session after session.
RECURSIVE MatchesOf(_, _)
MatchesOf(store, S) ==
  IF S = {}
    THEN <<>>
    ELSE LET s == CHOOSE x \in S : TRUE
         IN store[s].matches \o MatchesOf(store, S \ {s})

\* Mutant: the sessions are found by owner only, active or not.
UserStatsAllSessions(store, u) ==
  LET all == MatchesOf(store, {s \in DOMAIN store : store[s].user = u})
      wins == Len(SelectSeq(all, LAMBDA m : m.result = "Win"))
  IN [totalMatches |-> Len(all), wins |-> wins, losses |-> Len(all) - wins]

UserStats(store, u) ==
  LET all == MatchesOf(store, ActiveSessions(store, u))
      wins == Len(SelectSeq(all, LAMBDA m : m.result = "Win"))
  IN [totalMatches |-> Len(all), wins |-> wins, losses |-> Len(all) - wins]

\* The hook, run on the collection as it is after the write.
PostSave(store, u) == users' = [users EXCEPT ![u] = UserStats(store, u)]

\* What can go wrong inside "await session.save()" once the document has
\* validated: nothing, the write of the session is rejected by the store, or
\* the write is done and the post('save') hook that refreshes the owner's
\* statistics rejects (its User.findById, Session.find or user.save()).
SaveFaults == {"none", "write", "hook"}

\* Mutant: the write replaces the matches of every session of the owner.
SaveEverySession(op, status, s, matches, idx, custom, fault) ==
  IF ~ Validates(matches) \/ fault = "write"
    THEN Fail(op, 500)
    ELSE LET written == [x \in DOMAIN sessions |->
                           IF sessions[x].user = sessions[s].user
                             THEN [sessions[x] EXCEPT !.matches = matches]
                             ELSE sessions[x]]
         IN /\ sessions' = written
            /\ IF fault = "hook"
                 THEN /\ UNCHANGED users
                      /\ Respond(op, 500, "", 0, Undefined)
                 ELSE /\ PostSave(written, sessions[s].user)
                      /\ Respond(op, status, s, idx, custom)

\* await session.save() and the response after it.  Validation runs first; a
\* rejected save reaches the handler's catch block, which answers 500 and
\* does nothing else.
Save(op, status, s, matches, idx, custom, fault) ==
  IF ~ Validates(matches) \/ fault = "write"
    THEN Fail(op, 500)
    ELSE LET written == [sessions EXCEPT ![s].matches = matches]
         IN /\ sessions' = written
            /\ IF fault = "hook"
                 THEN /\ UNCHANGED users
                      /\ Respond(op, 500, "", 0, Undefined)
                 ELSE /\ PostSave(written, sessions[s].user)
                      /\ Respond(op, status, s, idx, custom)

\* -------------------------------------------------------------------------
\* POST /:id/matches  (add match to session)
\* -------------------------------------------------------------------------

\* Mutant: the prior points of an append are always pointsStart.
LastPointsStart(session) == session.pointsStart

\* lastMatch ? lastMatch.pointsAfter : session.pointsStart
LastPoints(session) ==
  IF Len(session.matches) > 0
    THEN session.matches[Len(session.matches)].pointsAfter
    ELSE session.pointsStart

\* Mutant: the formula never goes below zero.
AddFormulaPointsFloored(pointsFormula, result, lastPoints) ==
  LET raw == IF pointsFormula = "rated"
               THEN IF result = "Win" THEN lastPoints + Pts(7) ELSE lastPoints - Pts(7)
               ELSE IF result = "Win"
                      THEN lastPoints + Pts(1)
                      ELSE IF lastPoints < Pts(15)
                             THEN lastPoints - Unit \div 2
                             ELSE lastPoints - Pts(1)
  IN IF raw < 0 THEN 0 ELSE raw

\* The formula branch of "Calculate points".
AddFormulaPoints(pointsFormula, result, lastPoints) ==
  IF pointsFormula = "rated"
    THEN IF result = "Win" THEN lastPoints + Pts(7) ELSE lastPoints - Pts(7)
    ELSE IF result = "Win"
           THEN lastPoints + Pts(1)
           ELSE IF lastPoints < Pts(15)
                  THEN lastPoints - Unit \div 2
                  ELSE lastPoints - Pts(1)

\* Mutant: the override is stored but the points still come from the formula.
NewPointsFormulaOnly(session, body, lastPoints) ==
  IF session.pointsFormula = "rated"
    THEN IF body.result = "Win" THEN lastPoints + Pts(7) ELSE lastPoints - Pts(7)
    ELSE IF body.result = "Win"
           THEN lastPoints + Pts(1)
           ELSE IF lastPoints < Pts(15)
                  THEN lastPoints - Unit \div 2
                  ELSE lastPoints - Pts(1)

\* newPoints; a null override is carried as it is and fails validation.
NewPoints(session, body, lastPoints) ==
  IF body.customPointsAfter # Undefined
    THEN body.customPointsAfter.val
    ELSE AddFormulaPoints(session.pointsFormula, body.result, lastPoints)

MatchData(session, body) ==
  [deck |-> body.deck,
   opp |-> body.opp,
   result |-> body.result,
   turn |-> body.turn,
   pointsBefore |-> LastPoints(session),
   pointsAfter |-> NewPoints(session, body, LastPoints(session)),
   customPointsAfter |-> body.customPointsAfter]

\* Mutant: the new match is put in front of the others.
PushFront(matches, matchData) == <<matchData>> \o matches

\* session.matches.push(matchData)
Push(matches, matchData) == Append(matches, matchData)

\* Mutant: the session is loaded before the required fields are checked.
AddMatchLoadsFirst(u, s, body, fault) ==
  IF ~ FindOne(s, u)
    THEN Fail("append", 404)
    ELSE IF body.deck = "" \/ body.opp = "" \/ body.result = "" \/ body.turn = ""
      THEN Fail("append", 400)
      ELSE LET session == sessions[s]
               pushed == Push(session.matches, MatchData(session, body))
           IN Save("append", 201, s, pushed, Len(pushed), body.customPointsAfter,
                   fault)

AddMatch(u, s, body, fault) ==
  IF body.deck = "" \/ body.opp = "" \/ body.result = "" \/ body.turn = ""
    THEN Fail("append", 400)
    ELSE IF ~ FindOne(s, u)
      THEN Fail("append", 404)
      ELSE LET session == sessions[s]
               pushed == Push(session.matches, MatchData(session, body))
           IN Save("append", 201, s, pushed, Len(pushed), body.customPointsAfter,
                   fault)

\* -------------------------------------------------------------------------
\* PUT /:sessionId/matches/:matchId  (update match)
\* -------------------------------------------------------------------------

\* "Update match data": a field is written when the request carries it.
UpdateMatchData(m, body) ==
  [m EXCEPT
     !.deck = IF body.deck # "" THEN body.deck ELSE @,
     !.opp = IF body.opp # "" THEN body.opp ELSE @,
     !.result = IF body.result # "" THEN body.result ELSE @,
     !.turn = IF body.turn # "" THEN body.turn ELSE @,
     !.customPointsAfter =
        IF body.customPointsAfter # Undefined THEN body.customPointsAfter ELSE @,
     !.pointsAfter =
        IF body.customPointsAfter # Undefined THEN body.customPointsAfter.val ELSE @]

\* Mutant: the loop recomputes pointsAfter but does not write pointsBefore.
EditRecalcMatchKeepsBefore(pointsFormula, prevMatch, m) ==
  LET pointsBefore == prevMatch.pointsAfter
  IN IF m.customPointsAfter = Undefined
       THEN [m EXCEPT
               !.pointsAfter =
                  IF pointsFormula = "rated"
                    THEN IF m.result = "Win"
                           THEN pointsBefore + Pts(7)
                           ELSE pointsBefore - Pts(7)
                    ELSE IF m.result = "Win"
                           THEN pointsBefore + Pts(1)
                           ELSE IF pointsBefore < Pts(15)
                                  THEN pointsBefore - Unit \div 2
                                  ELSE pointsBefore - Pts(1)]
       ELSE m

\* Mutant: a dc loss always costs a whole point.
EditRecalcMatchFlatLoss(pointsFormula, prevMatch, m) ==
  LET pointsBefore == prevMatch.pointsAfter
  IN IF m.customPointsAfter = Undefined
       THEN [m EXCEPT
               !.pointsBefore = pointsBefore,
               !.pointsAfter =
                  IF pointsFormula = "rated"
                    THEN IF m.result = "Win"
                           THEN pointsBefore + Pts(7)
                           ELSE pointsBefore - Pts(7)
                    ELSE IF m.result = "Win"
                           THEN pointsBefore + Pts(1)
                           ELSE pointsBefore - Pts(1)]
       ELSE [m EXCEPT !.pointsBefore = pointsBefore]

\* Body of the recalculation loop of the edit, for the match at index i.
EditRecalcMatch(pointsFormula, prevMatch, m) ==
  LET pointsBefore == prevMatch.pointsAfter
  IN IF m.customPointsAfter = Undefined
       THEN [m EXCEPT
               !.pointsBefore = pointsBefore,
               !.pointsAfter =
                  IF pointsFormula = "rated"
                    THEN IF m.result = "Win"
                           THEN pointsBefore + Pts(7)
                           ELSE pointsBefore - Pts(7)
                    ELSE IF m.result = "Win"
                           THEN pointsBefore + Pts(1)
                           ELSE IF pointsBefore < Pts(15)
                                  THEN pointsBefore - Unit \div 2
                                  ELSE pointsBefore - Pts(1)]
       ELSE [m EXCEPT !.pointsBefore = pointsBefore]

\* for (let i = matchIndex + 1; i < session.matches.length; i++)
RECURSIVE EditRecalc(_, _, _)
EditRecalc(pointsFormula, matches, i) ==
  IF i > Len(matches)
    THEN matches
    ELSE EditRecalc(pointsFormula,
                    [matches EXCEPT
                       ![i] = EditRecalcMatch(pointsFormula, matches[i - 1], @)],
                    i + 1)

\* Mutant: the edit writes the override and recalculates nothing.
EditedMatchesNoRecalc(session, matchIndex, body) ==
  [session.matches EXCEPT ![matchIndex] = UpdateMatchData(@, body)]

\* Mutant: every edit rederives the points from the edited match on.
EditedMatchesRederived(session, matchIndex, body) ==
  LET updated ==
        [session.matches EXCEPT ![matchIndex] = UpdateMatchData(@, body)]
      m == updated[matchIndex]
      rederived ==
        [updated EXCEPT
           ![matchIndex].pointsAfter =
              IF m.customPointsAfter = Undefined
                THEN AddFormulaPoints(session.pointsFormula, m.result, m.pointsBefore)
                ELSE @]
  IN EditRecalc(session.pointsFormula, rederived, matchIndex + 1)

\* The session's matches in memory when save() is called.
EditedMatches(session, matchIndex, body) ==
  LET updated ==
        [session.matches EXCEPT ![matchIndex] = UpdateMatchData(@, body)]
  IN IF body.customPointsAfter # Undefined
       THEN EditRecalc(session.pointsFormula, updated, matchIndex + 1)
       ELSE updated

UpdateMatch(u, s, matchId, body, fault) ==
  IF ~ FindOne(s, u)
    THEN Fail("edit", 404)
    ELSE LET session == sessions[s]
             matchIndex == FindIndex(session.matches, matchId)
         IN IF matchIndex = 0
              THEN Fail("edit", 404)
              ELSE Save("edit", 200, s, EditedMatches(session, matchIndex, body),
                        matchIndex, body.customPointsAfter, fault)

\* -------------------------------------------------------------------------
\* DELETE /:sessionId/matches/:matchId  (delete match)
\* -------------------------------------------------------------------------

\* Mutant: the first match is removed, whatever the index.
SpliceFirst(matches, matchIndex) == Tail(matches)

\* session.matches.splice(matchIndex, 1)
Splice(matches, matchIndex) ==
  SubSeq(matches, 1, matchIndex - 1) \o SubSeq(matches, matchIndex + 1, Len(matches))

\* Mutant: the loop applies the formula to a match that carries an override.
DeleteRecalcMatchOverwrites(pointsFormula, prevPoints, m) ==
  [m EXCEPT
     !.pointsBefore = prevPoints,
     !.pointsAfter =
        IF pointsFormula = "rated"
          THEN IF m.result = "Win" THEN prevPoints + Pts(7) ELSE prevPoints - Pts(7)
          ELSE IF m.result = "Win"
                 THEN prevPoints + Pts(1)
                 ELSE IF prevPoints < Pts(15)
                        THEN prevPoints - Unit \div 2
                        ELSE prevPoints - Pts(1)]

\* Mutant: the loop computes pointsAfter from the match's old pointsBefore.
DeleteRecalcMatchStale(pointsFormula, prevPoints, m) ==
  IF m.customPointsAfter = Undefined
    THEN [m EXCEPT
            !.pointsBefore = prevPoints,
            !.pointsAfter =
               IF pointsFormula = "rated"
                 THEN IF m.result = "Win"
                        THEN m.pointsBefore + Pts(7)
                        ELSE m.pointsBefore - Pts(7)
                 ELSE IF m.result = "Win"
                        THEN m.pointsBefore + Pts(1)
                        ELSE IF m.pointsBefore < Pts(15)
                               THEN m.pointsBefore - Unit \div 2
                               ELSE m.pointsBefore - Pts(1)]
    ELSE [m EXCEPT !.pointsBefore = prevPoints]

\* Body of the recalculation loop of the delete, for the match at index i.
DeleteRecalcMatch(pointsFormula, prevPoints, m) ==
  IF m.customPointsAfter = Undefined
    THEN [m EXCEPT
            !.pointsBefore = prevPoints,
            !.pointsAfter =
               IF pointsFormula = "rated"
                 THEN IF m.result = "Win"
                        THEN prevPoints + Pts(7)
                        ELSE prevPoints - Pts(7)
                 ELSE IF m.result = "Win"
                        THEN prevPoints + Pts(1)
                        ELSE IF prevPoints < Pts(15)
                               THEN prevPoints - Unit \div 2
                               ELSE prevPoints - Pts(1)]
    ELSE [m EXCEPT !.pointsBefore = prevPoints]

\* for (let i = matchIndex; i < session.matches.length; i++)
RECURSIVE DeleteRecalc(_, _, _, _)
DeleteRecalc(pointsFormula, pointsStart, matches, i) ==
  IF i > Len(matches)
    THEN matches
    ELSE LET prevPoints ==
               IF i = 1 THEN pointsStart ELSE matches[i - 1].pointsAfter
         IN DeleteRecalc(pointsFormula, pointsStart,
                         [matches EXCEPT
                            ![i] = DeleteRecalcMatch(pointsFormula, prevPoints, @)],
                         i + 1)

DeleteMatch(u, s, matchId, fault) ==
  IF ~ FindOne(s, u)
    THEN Fail("delete", 404)
    ELSE LET session == sessions[s]
             matchIndex == FindIndex(session.matches, matchId)
         IN IF matchIndex = 0
              THEN Fail("delete", 404)
              ELSE Save("delete", 200, s,
                        DeleteRecalc(session.pointsFormula, session.pointsStart,
                                     Splice(session.matches, matchIndex),
                                     matchIndex),
                        matchIndex, Undefined, fault)

\* -------------------------------------------------------------------------
\* DELETE /:id/matches  (clear all matches)
\* -------------------------------------------------------------------------
\* Mutant: the matches that carry an override are kept.
EmptiedFormulaOnly(matches) ==
  SelectSeq(matches, LAMBDA m : m.customPointsAfter # Undefined)

\* session.matches = []
Emptied(matches) == <<>>

ClearMatches(u, s, fault) ==
  IF ~ FindOne(s, u)
    THEN Fail("clear", 404)
    ELSE Save("clear", 200, s, Emptied(sessions[s].matches), 0, Undefined, fault)

\* -------------------------------------------------------------------------
\* POST /  (create new session)
\* -------------------------------------------------------------------------

\* req.body of a creation request: "" is a missing name or pointsFormula,
\* Undefined a missing pointsStart.
CreateBodies ==
  [name : {"", "Ladder"},
   pointsFormula : {"", "rated", "dc", "casual"},
   pointsStart : {Undefined, Num(0), Num(Pts(20)), Num(- Pts(3))}]

\* Mutant: a missing pointsStart is left to the schema default.
StartPointsSchemaDefault(body) ==
  IF body.pointsStart = Undefined \/ body.pointsStart.val = 0
    THEN Pts(1500)
    ELSE body.pointsStart.val

\* pointsStart || (pointsFormula === 'dc' ? 0 : 1500); undefined and 0 are
\* falsy.
StartPoints(body) ==
  IF body.pointsStart = Undefined \/ body.pointsStart.val = 0
    THEN IF body.pointsFormula = "dc" THEN 0 ELSE Pts(1500)
    ELSE body.pointsStart.val

\* The document handed to Session.create.
NewSession(u, body) ==
  [user |-> u,
   pointsFormula |-> IF body.pointsFormula = "" THEN "rated" ELSE body.pointsFormula,
   pointsStart |-> StartPoints(body),
   isActive |-> TRUE,
   matches |-> <<>>]

\* sessionSchema validation run by Session.create.
SessionValidates(session) == session.pointsFormula \in {"rated", "dc"}

CreateSession(u, body, fault) ==
  IF body.name = ""
    THEN Fail("create", 400)
    ELSE IF ~ SessionValidates(NewSession(u, body)) \/ fault = "write"
      THEN Fail("create", 500)
      ELSE \E id \in SessionIds \ DOMAIN sessions :
             LET written == [s \in DOMAIN sessions \cup {id} |->
                               IF s = id THEN NewSession(u, body) ELSE sessions[s]]
             IN /\ sessions' = written
                /\ IF fault = "hook"
                     THEN /\ UNCHANGED users
                          /\ Respond("create", 500, "", 0, Undefined)
                     ELSE /\ PostSave(written, u)
                          /\ Respond("create", 201, id, 0, Undefined)

\* -------------------------------------------------------------------------
\* PUT /:id  (update session)
\* -------------------------------------------------------------------------

\* req.body.isActive of an update request: Undefined when it is not given.
\* The other fields a request can set (name, defaultDeck, description, tags)
\* are not part of the model's session.
IsActiveValues == {Undefined, Num(0), Num(1)}

\* Session.findOneAndUpdate({ _id, user }, { $set: ... }): the document is
\* written by the store, session.save() is not called.
UpdateSession(u, s, isActive) ==
  IF ~ FindOne(s, u)
    THEN Fail("update", 404)
    ELSE /\ sessions' =
              [sessions EXCEPT
                 ![s].isActive = IF isActive = Undefined THEN @ ELSE isActive.val = 1]
         /\ UNCHANGED users
         /\ Respond("update", 200, s, 0, Undefined)

\* -------------------------------------------------------------------------
\* DELETE /:id  (delete session)
\* -------------------------------------------------------------------------

\* Session.findOneAndDelete({ _id, user })
DeleteSession(u, s) ==
  IF ~ FindOne(s, u)
    THEN Fail("remove", 404)
    ELSE /\ sessions' = [x \in DOMAIN sessions \ {s} |-> sessions[x]]
         /\ UNCHANGED users
         /\ Respond("remove", 200, s, 0, Undefined)

\* -------------------------------------------------------------------------
\* sessionSchema.virtual('stats')
\* -------------------------------------------------------------------------

\* Mutant: the rate is cut off after its first decimal.
MathFloor(count, of) == (1000 * count) \div of

\* Math.round((count / of) * 1000) for 0 <= count <= of and of > 0:
\* Math.round gives the nearest integer and the larger one at a tie.  The
\* getter divides the result by 10; the model keeps the rate in tenths of a
\* percent (333 is 33.3).
MathRound(count, of) == (2 * 1000 * count + of) \div (2 * of)

\* Math.max(...values)
RECURSIVE MathMax(_)
MathMax(values) ==
  IF Len(values) = 1
    THEN values[1]
    ELSE LET rest == MathMax(Tail(values))
         IN IF values[1] > rest THEN values[1] ELSE rest

\* Mutant: the peak is the points the session stands at.
PeakPointsCurrent(session) ==
  IF Len(session.matches) > 0
    THEN session.matches[Len(session.matches)].pointsAfter
    ELSE session.pointsStart

\* Math.max(...matches.map(m => m.pointsAfter), this.pointsStart)
PeakPoints(session) ==
  MathMax([i \in 1..Len(session.matches) |-> session.matches[i].pointsAfter]
            \o <<session.pointsStart>>)

Stats(session) ==
  LET matches == session.matches
      total == Len(matches)
      wins == Len(SelectSeq(matches, LAMBDA m : m.result = "Win"))
      matches1st == SelectSeq(matches, LAMBDA m : m.turn = "1st")
      wins1st == Len(SelectSeq(matches1st, LAMBDA m : m.result = "Win"))
      matches2nd == SelectSeq(matches, LAMBDA m : m.turn = "2nd")
      wins2nd == Len(SelectSeq(matches2nd, LAMBDA m : m.result = "Win"))
  IN [total |-> total,
      wins |-> wins,
      losses |-> total - wins,
      winRate |-> IF total > 0 THEN MathRound(wins, total) ELSE 0,
      winRate1st |->
        IF Len(matches1st) > 0 THEN MathRound(wins1st, Len(matches1st)) ELSE 0,
      winRate2nd |->
        IF Len(matches2nd) > 0 THEN MathRound(wins2nd, Len(matches2nd)) ELSE 0,
      currentPoints |->
        IF total > 0 THEN matches[Len(matches)].pointsAfter ELSE session.pointsStart,
      peakPoints |-> PeakPoints(session)]

\* session.stats
ReadStats(s) ==
  /\ read' = [sid |-> s, stats |-> Stats(sessions[s])]
  /\ UNCHANGED <<sessions, users, last, tierItems, tournaments, loaded, recent>>

\* -------------------------------------------------------------------------
\* POST /:id/vote  (vote on tier item)
\* -------------------------------------------------------------------------
TierItemIds == {"t1", "t2"}

\* voteSchema type enum.
VoteEnum == {"like", "dislike"}

\* req.body.vote: "" is a missing vote.
VoteBodies == VoteEnum \cup {"", "love"}

\* tierItem.votes.findIndex(v => v.user.toString() === req.user.id); 0 is
\* the code's -1.
ExistingVoteIndex(votes, u) ==
  IF \E i \in 1..Len(votes) : votes[i].user = u
    THEN CHOOSE i \in 1..Len(votes) :
           /\ votes[i].user = u
           /\ \A j \in 1..(i - 1) : votes[j].user # u
    ELSE 0

\* tierItemSchema.methods.calculateScore
CalculateScore(votes) ==
  Len(SelectSeq(votes, LAMBDA v : v.type = "like"))
    - Len(SelectSeq(votes, LAMBDA v : v.type = "dislike"))

\* Mutant: a vote of the other type is added beside the existing vote.
VotesAfterAdds(votes, u, vote) ==
  LET existingVoteIndex == ExistingVoteIndex(votes, u)
  IN IF existingVoteIndex # 0 /\ votes[existingVoteIndex].type = vote
       THEN Splice(votes, existingVoteIndex)
       ELSE Append(votes, [user |-> u, type |-> vote])

\* tierItem.votes after the handler's splice, assignment or push.
VotesAfter(votes, u, vote) ==
  LET existingVoteIndex == ExistingVoteIndex(votes, u)
  IN IF existingVoteIndex # 0
       THEN IF votes[existingVoteIndex].type = vote
              THEN Splice(votes, existingVoteIndex)
              ELSE [votes EXCEPT ![existingVoteIndex].type = vote]
       ELSE Append(votes, [user |-> u, type |-> vote])

\* The handler; tierItem.save() runs the pre('save') hook, which sets the
\* score again from the votes.
Vote(u, t, vote) ==
  IF vote \notin VoteEnum
    THEN Fail("vote", 400)
    ELSE IF t \notin DOMAIN tierItems
      THEN Fail("vote", 404)
      ELSE LET votes == VotesAfter(tierItems[t].votes, u, vote)
           IN /\ tierItems' =
                   [tierItems EXCEPT ![t] = [votes |-> votes, score |-> CalculateScore(votes)]]
              /\ last' = [op |-> "vote", status |-> 200, sid |-> t, idx |-> 0,
                          custom |-> Undefined]
              /\ UNCHANGED <<sessions, users, read, tournaments, loaded, recent>>

\* -------------------------------------------------------------------------
\* POST /:id/register  (register for tournament)
\*
\* The handler awaits twice, at Tournament.findById and at tournament.save(),
\* and requests of other clients run in between: it is two steps.
\* -------------------------------------------------------------------------

\* Most registrations a tournament without a limit counts before further
\* requests stop being tried.
MaxRegistered == 3

\* maxParticipants of the tournament that takes registrations; 0 is a
\* tournament created without maxParticipants (no limit).
Capacities == {0, 1, 2}

\* tournament.maxParticipants && tournament.currentParticipants >= tournament.maxParticipants
IsFull(tournament) ==
  tournament.maxParticipants # 0
    /\ tournament.currentParticipants >= tournament.maxParticipants

\* From the request to the second await: findById, the three checks and
\* "tournament.currentParticipants += 1" on the document the request holds.
RegisterLoad(c, t) ==
  /\ loaded[c].at = "idle"
  /\ IF t \notin DOMAIN tournaments
       THEN Fail("register", 404)
       ELSE IF tournaments[t].completed \/ IsFull(tournaments[t])
         THEN Fail("register", 400)
         ELSE /\ loaded' =
                   [loaded EXCEPT
                      ![c] = [at |-> t,
                              currentParticipants |-> tournaments[t].currentParticipants + 1]]
              /\ UNCHANGED <<sessions, users, last, read, tierItems, tournaments, recent>>

\* await tournament.save() and the response: the document's
\* currentParticipants is written to the store.
RegisterSave(c) ==
  /\ loaded[c].at # "idle"
  /\ tournaments' =
       [tournaments EXCEPT
          ![loaded[c].at].currentParticipants = loaded[c].currentParticipants]
  /\ loaded' = [loaded EXCEPT ![c] = [at |-> "idle", currentParticipants |-> 0]]
  /\ last' = [op |-> "register", status |-> 200, sid |-> loaded[c].at, idx |-> 0,
              custom |-> Undefined]
  /\ UNCHANGED <<sessions, users, read, tierItems, recent>>

\* -------------------------------------------------------------------------
\* GET /player/:userId  (player statistics)
\* -------------------------------------------------------------------------

\* if (recentMatches.length < 20)
RecentKept == 20

\* recentMatches.slice(0, 10)
RecentReturned == 10

\* The order in which Session.find gives the sessions: the order in which
\* they were stored.
SessionOrder == <<"s1", "s2">>

\* sessions.forEach(session => session.matches.forEach(match => ...)): the
\* matches of the user's active sessions in the order they are visited.
RECURSIVE Visited(_, _)
Visited(u, i) ==
  IF i > Len(SessionOrder)
    THEN <<>>
    ELSE LET s == SessionOrder[i]
         IN (IF s \in ActiveSessions(sessions, u) THEN sessions[s].matches ELSE <<>>)
              \o Visited(u, i + 1)

\* The loop body for recentMatches: unshift while fewer than 20 are held.
RECURSIVE Unshifted(_, _)
Unshifted(matches, recentMatches) ==
  IF matches = <<>>
    THEN recentMatches
    ELSE LET match == Head(matches)
         IN Unshifted(Tail(matches),
                      IF Len(recentMatches) < RecentKept
                        THEN <<[deck |-> match.deck, opponent |-> match.opp,
                                result |-> match.result, date |-> match.createdAt]>>
                               \o recentMatches
                        ELSE recentMatches)

\* Array.prototype.slice(0, end)
Slice(array, end) == SubSeq(array, 1, IF Len(array) < end THEN Len(array) ELSE end)

\* The handler; every User document of the model is active, a userId outside
\* Users names no document.
PlayerStats(userId) ==
  /\ recent' =
       IF userId \notin Users
         THEN [userId |-> userId, status |-> 404, recentMatches |-> <<>>]
         ELSE [userId |-> userId, status |-> 200,
               recentMatches |-> Slice(Unshifted(Visited(userId, 1), <<>>), RecentReturned)]
  /\ UNCHANGED <<sessions, users, last, read, tierItems, tournaments, loaded>>

\* -------------------------------------------------------------------------
\* Specification
\* -------------------------------------------------------------------------
TotalMatches ==
  LET RECURSIVE Sum(_)
      Sum(S) == IF S = {} THEN 0
                ELSE LET x == CHOOSE y \in S : TRUE
                     IN Len(sessions[x].matches) + Sum(S \ {x})
  IN Sum(DOMAIN sessions)

\* Nothing was requested and no stats were read yet.
NoRequest == [op |-> "none", status |-> 0, sid |-> "", idx |-> 0, custom |-> Undefined]

NoRead ==
  [sid |-> "",
   stats |-> [total |-> 0, wins |-> 0, losses |-> 0, winRate |-> 0, winRate1st |-> 0,
              winRate2nd |-> 0, currentPoints |-> 0, peakPoints |-> 0]]

\* stats of a User document as the schema defaults give them.
NoStats == [u \in Users |-> [totalMatches |-> 0, wins |-> 0, losses |-> 0]]

\* The clients that can have a register request in flight.
Clients == {"c1", "c2", "c3"}

\* No register request is in flight.
NoneLoaded == [c \in Clients |-> [at |-> "idle", currentParticipants |-> 0]]

\* No player stats were read yet.
NoRecent == [userId |-> "", status |-> 0, recentMatches |-> <<>>]

\* No tier items, no tournaments, no request in flight.
NoCommunity ==
  /\ tierItems = <<>>
  /\ tournaments = <<>>
  /\ loaded = NoneLoaded
  /\ recent = NoRecent

\* A stored session without matches.
EmptySession(u, pointsFormula, pointsStart) ==
  [user |-> u, pointsFormula |-> pointsFormula, pointsStart |-> pointsStart,
   isActive |-> TRUE, matches |-> <<>>]

InitWith(configs) ==
  /\ \E c \in configs : sessions = [s \in {"s1"} |-> EmptySession("u1", c[1], c[2])]
  /\ users = NoStats
  /\ last = NoRequest
  /\ read = NoRead
  /\ NoCommunity

\* A request whose session does not resolve is answered before its match
\* locator is read, and one whose match does not resolve before its body is
\* read: one locator and one body stand for all of them.
MatchIds(s, u) ==
  IF FindOne(s, u) THEN 1..(Len(sessions[s].matches) + 1) ELSE {1}

Resolves(s, u, matchId) ==
  FindOne(s, u) /\ FindIndex(sessions[s].matches, matchId) # 0

\* Faults is the set of save outcomes a specification lets happen.
Add(Turns, Faults) ==
  /\ TotalMatches < MaxMatches
  /\ \E u \in Users, s \in SessionIds :
       \E body \in (IF FindOne(s, u) THEN AddBodies(Turns)
                                      ELSE {AnyBody, [AnyBody EXCEPT !.deck = ""]}) :
         \E fault \in Faults : AddMatch(u, s, body, fault)

Edit(Turns, Faults) ==
  \E u \in Users, s \in SessionIds :
    \E matchId \in MatchIds(s, u) :
      \E body \in (IF Resolves(s, u, matchId) THEN EditBodies(Turns) ELSE {AnyBody}) :
        \E fault \in Faults : UpdateMatch(u, s, matchId, body, fault)

Delete(Faults) ==
  \E u \in Users, s \in SessionIds :
    \E matchId \in MatchIds(s, u) :
      \E fault \in Faults : DeleteMatch(u, s, matchId, fault)

Clear(Faults) ==
  \E u \in Users, s \in SessionIds :
    \E fault \in Faults : ClearMatches(u, s, fault)

\* The ledger with every request carrying turn = "1st" and a store that
\* accepts every write.
Init == InitWith(SessionConfigs)

Next == Add({"1st"}, {"none"}) \/ Edit({"1st"}, {"none"}) \/ Delete({"none"}) \/ Clear({"none"})

Spec == Init /\ [][Next]_vars

\* The ledger with requests carrying either turn value.
InitTurns == InitWith(TurnsConfigs)

NextTurns ==
  Add(TurnEnum, {"none"}) \/ Edit(TurnEnum, {"none"}) \/ Delete({"none"}) \/ Clear({"none"})

SpecTurns == InitTurns /\ [][NextTurns]_vars

\* The ledger with a store whose saves can fail.
InitFaults == InitWith(TurnsConfigs)

NextFaults ==
  Add({"1st"}, SaveFaults) \/ Edit({"1st"}, SaveFaults) \/ Delete(SaveFaults)
    \/ Clear(SaveFaults)

SpecFaults == InitFaults /\ [][NextFaults]_vars

\* Two sessions, of one owner or of two, with the session routes that write
\* without saving.
InitAccounts ==
  /\ \E o \in Users :
       sessions = [s \in SessionIds |->
                     IF s = "s1" THEN EmptySession("u1", "rated", Pts(1500))
                                 ELSE EmptySession(o, "dc", Pts(10))]
  /\ users = NoStats
  /\ last = NoRequest
  /\ read = NoRead
  /\ NoCommunity

Update ==
  \E u \in Users, s \in SessionIds, isActive \in IsActiveValues :
    UpdateSession(u, s, isActive)

Remove == \E u \in Users, s \in SessionIds : DeleteSession(u, s)

\* The request bodies of this specification: a win, a loss and a win with an
\* override.
AccountBodies ==
  {AnyBody, [AnyBody EXCEPT !.result = "Loss"],
   [AnyBody EXCEPT !.customPointsAfter = Num(Pts(15))]}

AddTo ==
  /\ TotalMatches < MaxAccountMatches
  /\ \E u \in Users, s \in SessionIds :
       \E body \in AccountBodies : AddMatch(u, s, body, "none")

EditIn ==
  \E u \in Users, s \in SessionIds :
    \E matchId \in MatchIds(s, u) :
      \E body \in AccountBodies : UpdateMatch(u, s, matchId, body, "none")

NextAccounts ==
  AddTo \/ EditIn \/ Delete({"none"}) \/ Clear({"none"}) \/ Update \/ Remove

SpecAccounts == InitAccounts /\ [][NextAccounts]_vars

\* Session creation, from a store without sessions.
InitCreate ==
  /\ sessions = <<>>
  /\ users = NoStats
  /\ last = NoRequest
  /\ read = NoRead
  /\ NoCommunity

Create ==
  /\ SessionIds \ DOMAIN sessions # {}
  /\ \E u \in Users, body \in CreateBodies, fault \in SaveFaults :
       CreateSession(u, body, fault)

NextCreate == Create

SpecCreate == InitCreate /\ [][NextCreate]_vars

\* The stats getter over the ledgers that appends build: every sequence of at
\* most MaxStatMatches appends, of either result, either turn, with and
\* without an override.
RECURSIVE Appended(_, _)
Appended(session, bodies) ==
  IF bodies = <<>>
    THEN session
    ELSE Appended([session EXCEPT !.matches = Push(@, MatchData(session, Head(bodies)))],
                  Tail(bodies))

Histories == UNION {[1..k -> CompleteBodies(TurnEnum)] : k \in 0..MaxStatMatches}

InitStats ==
  /\ \E c \in StatsConfigs, h \in Histories :
       sessions = [s \in {"s1"} |-> Appended(EmptySession("u1", c[1], c[2]), h)]
  /\ users = [NoStats EXCEPT !["u1"] = UserStats(sessions, "u1")]
  /\ last = NoRequest
  /\ read = NoRead
  /\ NoCommunity

NextStats == \E s \in DOMAIN sessions : ReadStats(s)

SpecStats == InitStats /\ [][NextStats]_vars

\* No sessions: the state of the ledger in the specifications of the other
\* routes.
NoLedger ==
  /\ sessions = <<>>
  /\ users = NoStats
  /\ read = NoRead

\* Votes on two tier items, each stored without votes, by either user; a
\* request can also name an item that does not exist.
InitVotes ==
  /\ NoLedger
  /\ last = NoRequest
  /\ tierItems = [t \in TierItemIds |-> [votes |-> <<>>, score |-> 0]]
  /\ tournaments = <<>>
  /\ loaded = NoneLoaded
  /\ recent = NoRecent

NextVotes ==
  \E u \in Users, t \in TierItemIds \cup {"t3"}, vote \in VoteBodies : Vote(u, t, vote)

SpecVotes == InitVotes /\ [][NextVotes]_vars

\* Registrations: an upcoming tournament with or without a limit and a
\* completed one, both without registrations, and any number of requests in
\* flight at a time.
InitRegister ==
  /\ NoLedger
  /\ last = NoRequest
  /\ tierItems = <<>>
  /\ \E m \in Capacities :
       tournaments =
         [t \in {"t1", "t2"} |->
            [maxParticipants |-> IF t = "t1" THEN m ELSE 0,
             currentParticipants |-> 0,
             completed |-> (t = "t2")]]
  /\ loaded = NoneLoaded
  /\ recent = NoRecent

Register ==
  \E c \in Clients, t \in {"t1", "t2", "t3"} :
    /\ t \in DOMAIN tournaments => tournaments[t].currentParticipants < MaxRegistered
    /\ RegisterLoad(c, t)

Registered == \E c \in Clients : RegisterSave(c)

NextRegister == Register \/ Registered

SpecRegister == InitRegister /\ [][NextRegister]_vars

\* Most matches the two sessions of a player hold together when the player's
\* statistics are read.
MaxPlayerMatches == 21

\* A session with n matches appended, recorded at the times from + 1 to
\* from + n.
Recorded(u, n, from) ==
  LET session == Appended(EmptySession(u, "rated", Pts(1500)),
                          [i \in 1..n |-> IF i % 3 = 0
                                            THEN [AnyBody EXCEPT !.result = "Loss"]
                                            ELSE AnyBody])
  IN [session EXCEPT
        !.matches = [i \in 1..n |->
                       [deck |-> session.matches[i].deck,
                        opp |-> session.matches[i].opp,
                        result |-> session.matches[i].result,
                        turn |-> session.matches[i].turn,
                        pointsBefore |-> session.matches[i].pointsBefore,
                        pointsAfter |-> session.matches[i].pointsAfter,
                        customPointsAfter |-> session.matches[i].customPointsAfter,
                        createdAt |-> from + i]]]

\* The player-statistics read over two sessions that hold up to
\* MaxPlayerMatches matches together; the second session is of either user
\* and active or not.
InitPlayer ==
  /\ \E n1 \in 0..MaxPlayerMatches, o \in Users, isActive \in BOOLEAN :
       \E n2 \in 0..(MaxPlayerMatches - n1) :
         sessions = [s \in SessionIds |->
                       IF s = "s1" THEN Recorded("u1", n1, 0)
                                   ELSE [Recorded(o, n2, n1) EXCEPT !.isActive = isActive]]
  /\ users = [u \in Users |-> UserStats(sessions, u)]
  /\ last = NoRequest
  /\ read = NoRead
  /\ NoCommunity

NextPlayer == \E userId \in Users \cup {"u3"} : PlayerStats(userId)

SpecPlayer == InitPlayer /\ [][NextPlayer]_vars

\* -------------------------------------------------------------------------
\* Properties of the points ledger
\* -------------------------------------------------------------------------

\* The scoring rule as the specification states it (section 4.1).
ScoringRule(priorPoints, result, formula) ==
  IF formula = "rated"
    THEN IF result = "Win" THEN priorPoints + Pts(7) ELSE priorPoints - Pts(7)
    ELSE IF result = "Win"
           THEN priorPoints + Pts(1)
           ELSE IF priorPoints >= Pts(15)
                  THEN priorPoints - Pts(1)
                  ELSE priorPoints - Unit \div 2

Succeeded(op) == last.op = op /\ last.status \in {200, 201}

\* The prior points of position j of a session: the pointsAfter of the match
\* before it, or pointsStart for the first.
PriorPoints(session, j) ==
  IF j = 1 THEN session.pointsStart ELSE session.matches[j - 1].pointsAfter

Linked(session, j) == session.matches[j].pointsBefore = PriorPoints(session, j)

Derived(session, j) ==
  LET m == session.matches[j]
  IN m.customPointsAfter = Undefined =>
       m.pointsAfter = ScoringRule(m.pointsBefore, m.result, session.pointsFormula)

\* The positions whose points the last operation computed by formula: the
\* appended match of an append without override, the matches after the edited
\* one of an edit with override, the matches from the removed position on of
\* a delete; in each case those without an override of their own.
FormulaComputed ==
  IF last.status \notin {200, 201} \/ last.op = "clear"
    THEN {}
    ELSE LET ms == sessions[last.sid].matches
             range == IF last.op = "append"
                        THEN IF last.custom = Undefined THEN {last.idx} ELSE {}
                        ELSE IF last.op = "edit"
                               THEN IF last.custom = Undefined
                                      THEN {}
                                      ELSE (last.idx + 1)..Len(ms)
                               ELSE last.idx..Len(ms)
         IN {j \in range : ms[j].customPointsAfter = Undefined}

\* C1. Chain invariant: in every reachable state the first match's
\* pointsBefore is the session's pointsStart and every later match's
\* pointsBefore is the pointsAfter of the match before it.
ChainInvariant ==
  \A s \in DOMAIN sessions :
    \A j \in 1..Len(sessions[s].matches) : Linked(sessions[s], j)

\* An edit with an override of the first of three matches has re-linked the
\* two matches after it.
ChainRelinkedByEdit ==
  /\ Succeeded("edit")
  /\ last.idx = 1
  /\ last.custom = Num(Pts(15))
  /\ LET ms == sessions[last.sid].matches
     IN /\ Len(ms) = 3
        /\ ms[2].pointsBefore = Pts(15)
        /\ ms[3].pointsBefore = ms[2].pointsAfter
        /\ ms[3].pointsBefore # Pts(15)

\* C2. Override is authoritative: in every reachable state every match with
\* customPointsAfter set has pointsAfter equal to it.
OverrideAuthoritative ==
  \A s \in DOMAIN sessions :
    \A j \in 1..Len(sessions[s].matches) :
      LET m == sessions[s].matches[j]
      IN m.customPointsAfter # Undefined =>
           /\ m.customPointsAfter.kind = "number"
           /\ m.pointsAfter = m.customPointsAfter.val

\* A delete has recomputed forward over a match that carries an override:
\* its pointsBefore was re-linked to a value the formula would not map to it.
OverrideKeptThroughDelete ==
  /\ Succeeded("delete")
  /\ LET ses == sessions[last.sid]
         ms == ses.matches
     IN \E j \in last.idx..Len(ms) :
          /\ ms[j].customPointsAfter = Num(Pts(15))
          /\ ms[j].pointsAfter = Pts(15)
          /\ ms[j].pointsAfter
               # ScoringRule(ms[j].pointsBefore, ms[j].result, ses.pointsFormula)
          /\ j < Len(ms)

\* C3. Points are derived: in every reachable state every match without
\* customPointsAfter has pointsAfter equal to the scoring rule applied to its
\* pointsBefore, its current result and the session's pointsFormula.
PointsDerived ==
  \A s \in DOMAIN sessions :
    \A j \in 1..Len(sessions[s].matches) : Derived(sessions[s], j)

\* C4. Edit with an override: after an edit of match i with
\* customPointsAfter = X, match i has customPointsAfter = pointsAfter = X
\* whatever its result, and every match j > i has pointsBefore equal to match
\* j-1's pointsAfter and, without an override of its own, pointsAfter equal to
\* the scoring rule applied to that pointsBefore.
EditOverrideRederives ==
  (Succeeded("edit") /\ last.custom # Undefined) =>
    LET ses == sessions[last.sid]
        ms == ses.matches
        i == last.idx
    IN /\ last.custom.kind = "number"
       /\ ms[i].customPointsAfter = last.custom
       /\ ms[i].pointsAfter = last.custom.val
       /\ \A j \in (i + 1)..Len(ms) : Linked(ses, j) /\ Derived(ses, j)

\* An edit put an override on a lost first match of three; the formula gives
\* the two matches after it their points from the override on.
EditOverrideActed ==
  /\ Succeeded("edit")
  /\ last.idx = 1
  /\ last.custom = Num(Pts(15))
  /\ LET ses == sessions[last.sid]
         ms == ses.matches
     IN /\ Len(ms) = 3
        /\ ms[1].result = "Loss"
        /\ ms[1].pointsAfter = Pts(15)
        /\ ms[1].pointsAfter # ScoringRule(ms[1].pointsBefore, "Loss", ses.pointsFormula)
        /\ ms[2].customPointsAfter = Undefined
        /\ ms[3].customPointsAfter = Undefined
        /\ ms[3].pointsAfter
             = ScoringRule(ScoringRule(Pts(15), ms[2].result, ses.pointsFormula),
                           ms[3].result, ses.pointsFormula)

\* The fields of a match that no recomputation writes.
Payload(m) == <<m.deck, m.opp, m.result, m.turn, m.customPointsAfter>>

\* C5. Delete and reconverge: a delete at position k removes exactly that
\* match (the length decreases by 1, the other matches keep their order and
\* their own fields), and afterwards every match at a position >= k has
\* pointsBefore equal to the pointsAfter of the match now before it (pointsStart
\* when it is first) and, without an override, pointsAfter equal to the scoring
\* rule applied to that pointsBefore; Win,Loss,Win under rated from 1500
\* becomes 1500->1507->1514 when the Loss is deleted.
DeleteReconverges ==
  [][(last'.op = "delete" /\ last'.status = 200) =>
       LET s == last'.sid
           k == last'.idx
           old == sessions[s].matches
           ses == sessions'[s]
           new == ses.matches
       IN /\ Len(new) = Len(old) - 1
          /\ \A j \in 1..Len(new) :
               Payload(new[j]) = Payload(old[IF j < k THEN j ELSE j + 1])
          /\ \A j \in k..Len(new) :
               /\ new[j].pointsBefore = PriorPoints(ses, j)
               /\ new[j].customPointsAfter = Undefined =>
                    new[j].pointsAfter
                      = ScoringRule(PriorPoints(ses, j), new[j].result, ses.pointsFormula)
          /\ ( /\ ses.pointsFormula = "rated"
               /\ ses.pointsStart = Pts(1500)
               /\ k = 2
               /\ Len(old) = 3
               /\ \A j \in 1..3 : old[j].customPointsAfter = Undefined
               /\ <<old[1].result, old[2].result, old[3].result>> = <<"Win", "Loss", "Win">>
               /\ <<old[1].pointsAfter, old[2].pointsAfter, old[3].pointsAfter>>
                    = <<Pts(1507), Pts(1500), Pts(1507)>> )
             => /\ <<new[1].pointsBefore, new[1].pointsAfter>> = <<Pts(1500), Pts(1507)>>
                /\ <<new[2].pointsBefore, new[2].pointsAfter>> = <<Pts(1507), Pts(1514)>>
     ]_vars

\* The second of three matches was deleted from a rated session that starts at
\* 1500, and the two wins left read 1500->1507->1514.
DeletedAndReconverged ==
  /\ Succeeded("delete")
  /\ last.idx = 2
  /\ LET ses == sessions[last.sid]
         ms == ses.matches
     IN /\ ses.pointsFormula = "rated"
        /\ ses.pointsStart = Pts(1500)
        /\ Len(ms) = 2
        /\ ms[1].result = "Win" /\ ms[2].result = "Win"
        /\ ms[1].customPointsAfter = Undefined /\ ms[2].customPointsAfter = Undefined
        /\ <<ms[1].pointsBefore, ms[1].pointsAfter>> = <<Pts(1500), Pts(1507)>>
        /\ <<ms[2].pointsBefore, ms[2].pointsAfter>> = <<Pts(1507), Pts(1514)>>

\* C6. An append sets the new match's pointsBefore to the pointsAfter of the
\* session's last match, or to pointsStart when the session has no matches.
AppendPriorPoints ==
  [][(last'.op = "append" /\ last'.status = 201) =>
       LET s == last'.sid
           old == sessions[s].matches
           new == sessions'[s].matches
       IN new[Len(new)].pointsBefore
            = IF Len(old) = 0
                THEN sessions[s].pointsStart
                ELSE old[Len(old)].pointsAfter
     ]_vars

\* A match was appended to a session without matches and starts from
\* pointsStart.
AppendedToEmpty ==
  /\ Succeeded("append")
  /\ last.idx = 1
  /\ LET ses == sessions[last.sid]
     IN /\ Len(ses.matches) = 1
        /\ ses.pointsStart = Pts(1500)
        /\ ses.matches[1].pointsBefore = Pts(1500)

\* C7. Rated scoring rule: wherever an append, an edit's recompute or a
\* delete's recompute computes points by formula in a rated session, a Win
\* gives pointsBefore + 7 and a Loss pointsBefore - 7, with no floor.
RatedRule ==
  \A j \in FormulaComputed :
    LET ses == sessions[last.sid]
        m == ses.matches[j]
    IN ses.pointsFormula = "rated" =>
         /\ m.result = "Win" => m.pointsAfter = m.pointsBefore + Pts(7)
         /\ m.result = "Loss" => m.pointsAfter = m.pointsBefore - Pts(7)

\* A delete recomputed two losses of a rated session, one from a pointsBefore
\* between 0 and 7 and one from a negative pointsBefore.
RatedLossBelowZero ==
  /\ Succeeded("delete")
  /\ sessions[last.sid].pointsFormula = "rated"
  /\ LET ms == sessions[last.sid].matches
     IN \E j, k \in FormulaComputed :
          /\ ms[j].result = "Loss" /\ ms[k].result = "Loss"
          /\ ms[j].pointsBefore >= 0 /\ ms[j].pointsBefore < Pts(7)
          /\ ms[j].pointsAfter < 0
          /\ ms[k].pointsBefore < 0
          /\ ms[k].pointsAfter = ms[k].pointsBefore - Pts(7)

\* C8. DC scoring rule: wherever an append, an edit's recompute or a delete's
\* recompute computes points by formula in a dc session, a Win gives
\* pointsBefore + 1, a Loss pointsBefore - 1 when pointsBefore >= 15 and
\* pointsBefore - 0.5 when pointsBefore < 15 (Loss at 15 gives 14, Loss at 10
\* gives 9.5), with no floor.
DcRule ==
  /\ \A j \in FormulaComputed :
       LET ses == sessions[last.sid]
           m == ses.matches[j]
       IN ses.pointsFormula = "dc" =>
            /\ m.result = "Win" => m.pointsAfter = m.pointsBefore + Pts(1)
            /\ (m.result = "Loss" /\ m.pointsBefore >= Pts(15)) =>
                 m.pointsAfter = m.pointsBefore - Pts(1)
            /\ (m.result = "Loss" /\ m.pointsBefore < Pts(15)) =>
                 2 * m.pointsAfter = 2 * m.pointsBefore - Pts(1)
  /\ \A p \in {10, 15} :
       LET after == IF p = 15 THEN Pts(14) ELSE Pts(9) + Unit \div 2
           m == [deck |-> "Branded", opp |-> "Maliss", result |-> "Loss",
                 turn |-> "1st", pointsBefore |-> 0, pointsAfter |-> 0,
                 customPointsAfter |-> Undefined]
       IN /\ AddFormulaPoints("dc", "Loss", Pts(p)) = after
          /\ EditRecalcMatch("dc", [m EXCEPT !.pointsAfter = Pts(p)], m).pointsAfter = after
          /\ DeleteRecalcMatch("dc", Pts(p), m).pointsAfter = after

\* An edit put the override 15 on the first match of a dc session and its
\* recompute took a loss from 15 to 14 and the next loss from 14 to 13.5.
DcLossAcrossThreshold ==
  /\ Succeeded("edit")
  /\ last.idx = 1
  /\ last.custom = Num(Pts(15))
  /\ sessions[last.sid].pointsFormula = "dc"
  /\ LET ms == sessions[last.sid].matches
     IN /\ Len(ms) = 3
        /\ FormulaComputed = {2, 3}
        /\ ms[2].result = "Loss" /\ ms[3].result = "Loss"
        /\ <<ms[2].pointsBefore, ms[2].pointsAfter>> = <<Pts(15), Pts(14)>>
        /\ <<ms[3].pointsBefore, ms[3].pointsAfter>> = <<Pts(14), Pts(13) + Unit \div 2>>

\* C9. Append with an override: an append that carries customPointsAfter = X
\* stores the new match with customPointsAfter = X and pointsAfter = X whatever
\* its result and the formula; one that carries none stores it without
\* customPointsAfter and with pointsAfter equal to the scoring rule applied to
\* the prior points, its result and the formula.
AppendOverride ==
  [][(last'.op = "append" /\ last'.status = 201) =>
       LET s == last'.sid
           prior == PriorPoints(sessions[s], Len(sessions[s].matches) + 1)
           m == sessions'[s].matches[Len(sessions'[s].matches)]
       IN IF last'.custom # Undefined
            THEN /\ last'.custom.kind = "number"
                 /\ m.customPointsAfter = last'.custom
                 /\ m.pointsAfter = last'.custom.val
            ELSE /\ m.customPointsAfter = Undefined
                 /\ m.pointsAfter
                      = ScoringRule(prior, m.result, sessions[s].pointsFormula)
     ]_vars

\* A lost match was appended with the override 15 to a session whose formula
\* would have given it other points.
AppendedWithOverride ==
  /\ Succeeded("append")
  /\ last.custom = Num(Pts(15))
  /\ LET ses == sessions[last.sid]
         m == ses.matches[last.idx]
     IN /\ last.idx = Len(ses.matches)
        /\ m.result = "Loss"
        /\ m.customPointsAfter = Num(Pts(15))
        /\ m.pointsAfter = Pts(15)
        /\ ScoringRule(m.pointsBefore, m.result, ses.pointsFormula) # Pts(15)

\* C10. Append frame: a successful append makes the session one match longer
\* with the new match last, and leaves every earlier match, their order,
\* pointsStart, pointsFormula and every other session as they were.
AppendFrame ==
  [][(last'.op = "append" /\ last'.status = 201) =>
       LET s == last'.sid
           old == sessions[s].matches
           new == sessions'[s].matches
       IN /\ Len(new) = Len(old) + 1
          /\ last'.idx = Len(new)
          /\ \A j \in 1..Len(old) : new[j] = old[j]
          /\ sessions'[s].pointsStart = sessions[s].pointsStart
          /\ sessions'[s].pointsFormula = sessions[s].pointsFormula
          /\ sessions'[s].user = sessions[s].user
          /\ DOMAIN sessions' = DOMAIN sessions
          /\ \A o \in DOMAIN sessions \ {s} : sessions'[o] = sessions[o]
     ]_vars

\* A third match was appended after two matches that differ in turn and in
\* result, the first of them carrying an override.
AppendedThird ==
  /\ Succeeded("append")
  /\ last.idx = 3
  /\ LET ms == sessions[last.sid].matches
     IN /\ Len(ms) = 3
        /\ ms[1].turn = "1st" /\ ms[2].turn = "2nd"
        /\ ms[1].result # ms[2].result
        /\ ms[1].customPointsAfter # Undefined
        /\ ms[2].customPointsAfter = Undefined

\* C11. Append validation: an append whose request lacks deck, opp, result or
\* turn (missing or empty) is answered with the validation error 400 before
\* the session is loaded, so also when the session does not resolve, and it
\* leaves every stored match sequence as it was.
AppendValidation ==
  [][(last'.op = "append") =>
       \A u \in Users, s \in SessionIds, body \in MissingFieldBodies :
         \A fault \in SaveFaults :
           AddMatch(u, s, body, fault) =>
             /\ last'.status = 400
             /\ sessions' = sessions
     ]_vars

\* An append was answered 400 while the stored session holds two matches.
AppendRejected ==
  /\ last.op = "append"
  /\ last.status = 400
  /\ \E s \in DOMAIN sessions : Len(sessions[s].matches) = 2

\* The answer "not found" with nothing written.
NotFoundUnchanged == last'.status = 404 /\ sessions' = sessions

\* Every request whose session does not resolve for the caller, and every
\* edit or delete whose match locator names no match of the session, is
\* answered "not found" with nothing written; bodies are the append bodies
\* this is said of.  The requests are those of a store that accepts writes.
NotFoundFor(bodies) ==
  \/ NotFoundUnchanged
  \/ /\ (last'.op = "append") =>
          \A u \in Users, s \in SessionIds :
            ~ FindOne(s, u) =>
              \A body \in bodies : ~ AddMatch(u, s, body, "none")
     /\ (last'.op = "edit") =>
          \A u \in Users, s \in SessionIds, matchId \in 1..(MaxMatches + 1) :
            (~ FindOne(s, u) \/ matchId \notin 1..Len(sessions[s].matches)) =>
              \A body \in CompleteBodies({"1st"}) :
                ~ UpdateMatch(u, s, matchId, body, "none")
     /\ (last'.op = "delete") =>
          \A u \in Users, s \in SessionIds, matchId \in 1..(MaxMatches + 1) :
            (~ FindOne(s, u) \/ matchId \notin 1..Len(sessions[s].matches)) =>
              ~ DeleteMatch(u, s, matchId, "none")
     /\ (last'.op = "clear") =>
          \A u \in Users, s \in SessionIds :
            ~ FindOne(s, u) => ~ ClearMatches(u, s, "none")

\* C12 as stated. Not found is all-or-nothing: an append, edit, delete or
\* clear whose session does not resolve, and an edit or delete whose match id
\* is not in the session, fails with a not-found error and leaves every
\* session's match sequence and points as they were.
NotFoundAlways == [][NotFoundFor(AddBodies({"1st"}))]_vars

\* C12. Not found is all-or-nothing: an append that carries deck, opp, result
\* and turn, or an edit, delete or clear, whose session does not resolve, and
\* an edit or delete whose match id is not in the session, fails with a
\* not-found error and leaves every session's match sequence and points as
\* they were.  (An append without one of the four fields is answered 400
\* before the session is looked up.)
NotFoundAllOrNothing ==
  [][NotFoundFor(CompleteBodies({"1st"}) \cup InvalidValueBodies)]_vars

\* A delete was answered 404 while the stored session holds three matches.
NotFoundWithLedger ==
  /\ last.op = "delete"
  /\ last.status = 404
  /\ \E s \in DOMAIN sessions : Len(sessions[s].matches) = 3

\* C13. Clear empties the ledger: after a clear the session's match sequence
\* is empty whatever it held before, matches with overrides included, and the
\* session's pointsStart and pointsFormula are unchanged.
ClearEmpties ==
  [][(last'.op = "clear" /\ last'.status = 200) =>
       LET s == last'.sid
       IN /\ sessions'[s].matches = <<>>
          /\ sessions'[s].pointsStart = sessions[s].pointsStart
          /\ sessions'[s].pointsFormula = sessions[s].pointsFormula
     ]_vars

\* A clear succeeded on a dc session that starts at 10 points.
Cleared ==
  /\ Succeeded("clear")
  /\ LET ses == sessions[last.sid]
     IN /\ ses.matches = <<>>
        /\ ses.pointsFormula = "dc"
        /\ ses.pointsStart = Pts(10)

\* The delete's loop run over a session's matches from index i.
Recomputed(session, i) ==
  DeleteRecalc(session.pointsFormula, session.pointsStart, session.matches, i)

\* C14. Idempotent recompute: running the forward recompute loop of the
\* delete, from any index with the predecessor's points, over matches that a
\* forward recompute from that index has just produced changes no pointsBefore
\* and no pointsAfter.  This is checked of the loop run twice over every
\* reachable ledger, of the ledger a delete at k has stored (from k), and of
\* the ledger an edit of match i with an override has stored (from i + 1).
RecomputeIdempotent ==
  /\ \A s \in DOMAIN sessions :
       \A i \in 1..(Len(sessions[s].matches) + 1) :
         LET once == [sessions[s] EXCEPT !.matches = Recomputed(sessions[s], i)]
         IN Recomputed(once, i) = once.matches
  /\ Succeeded("delete") =>
       Recomputed(sessions[last.sid], last.idx) = sessions[last.sid].matches
  /\ (Succeeded("edit") /\ last.custom # Undefined) =>
       Recomputed(sessions[last.sid], last.idx + 1) = sessions[last.sid].matches

\* A stored ledger of three matches whose points the loop changes when it is
\* run from the first match, the second carrying an override, and does not
\* change when it is run again.
RecomputedTwice ==
  \E s \in DOMAIN sessions :
    LET once == [sessions[s] EXCEPT !.matches = Recomputed(sessions[s], 1)]
    IN /\ Len(sessions[s].matches) = 3
       /\ sessions[s].matches[2].customPointsAfter # Undefined
       /\ once.matches[1].pointsAfter # sessions[s].matches[1].pointsAfter
       /\ once.matches[3].pointsAfter # sessions[s].matches[3].pointsAfter
       /\ Recomputed(once, 1) = once.matches

\* r is count / of as a percentage rounded to one decimal, in tenths of a
\* percent: the integer nearest to 1000 * count / of, and 0 when of is 0.
IsRate(r, count, of) ==
  IF of = 0
    THEN r = 0
    ELSE 2 * of * r - of <= 2 * 1000 * count /\ 2 * 1000 * count < 2 * of * r + of

\* The positions of a ledger that hold a match of the given turns and results.
Positions(ms, turns, results) ==
  {i \in 1..Len(ms) : ms[i].turn \in turns /\ ms[i].result \in results}

\* C15. Session win rates: a session's stats have total = wins + losses and
\* winRate = round(wins / total * 1000) / 10 (1 win of 3 gives 33.3), 0 for a
\* session without matches; the first-turn and second-turn win rates are the
\* same rounding over the matches with that turn, 0 when there are none.
SessionWinRates ==
  read.sid # "" =>
    LET ms == sessions[read.sid].matches
        st == read.stats
        n(turns, results) == Cardinality(Positions(ms, turns, results))
    IN /\ st.total = Len(ms)
       /\ st.wins = n(TurnEnum, {"Win"})
       /\ st.total = st.wins + st.losses
       /\ IsRate(st.winRate, st.wins, st.total)
       /\ IsRate(st.winRate1st, n({"1st"}, {"Win"}), n({"1st"}, ResultEnum))
       /\ IsRate(st.winRate2nd, n({"2nd"}, {"Win"}), n({"2nd"}, ResultEnum))
       /\ (st.wins = 1 /\ st.total = 3) => st.winRate = 333

\* The stats of a session with 2 wins in 3 matches, all of them played first,
\* were read: 66.7, 66.7 and 0.
WinRatesRead ==
  /\ read.sid # ""
  /\ read.stats.total = 3
  /\ read.stats.wins = 2
  /\ read.stats.losses = 1
  /\ read.stats.winRate = 667
  /\ read.stats.winRate1st = 667
  /\ read.stats.winRate2nd = 0

\* C16. Session point stats: currentPoints is the last match's pointsAfter
\* (pointsStart without matches), peakPoints is the maximum of pointsStart
\* and every match's pointsAfter, so peakPoints >= currentPoints and
\* peakPoints >= pointsStart.
SessionPointStats ==
  read.sid # "" =>
    LET ses == sessions[read.sid]
        ms == ses.matches
        st == read.stats
        points == {ses.pointsStart} \cup {ms[i].pointsAfter : i \in 1..Len(ms)}
    IN /\ st.currentPoints
            = IF Len(ms) = 0 THEN ses.pointsStart ELSE ms[Len(ms)].pointsAfter
       /\ st.peakPoints \in points
       /\ \A p \in points : st.peakPoints >= p
       /\ st.peakPoints >= st.currentPoints
       /\ st.peakPoints >= ses.pointsStart

\* The stats of a session that went above its pointsStart and ended below it
\* were read.
PointStatsRead ==
  /\ read.sid # ""
  /\ LET ses == sessions[read.sid]
     IN /\ Len(ses.matches) = 3
        /\ read.stats.peakPoints = ses.matches[1].pointsAfter
        /\ read.stats.peakPoints > ses.pointsStart
        /\ read.stats.currentPoints < ses.pointsStart

\* C17. Default starting points: a session created without pointsStart gets
\* pointsStart 0 when its pointsFormula is dc and 1500 when it is rated or not
\* given, and a pointsFormula that is not given is stored as rated.
DefaultStartPoints ==
  [][(last'.op = "create" /\ last'.status = 201) =>
       \A u \in Users, body \in CreateBodies, fault \in SaveFaults :
         (body.pointsStart = Undefined /\ CreateSession(u, body, fault)) =>
           LET ses == sessions'[last'.sid]
           IN /\ last'.sid \notin DOMAIN sessions
              /\ ses.matches = <<>>
              /\ body.pointsFormula = "dc" =>
                   ses.pointsFormula = "dc" /\ ses.pointsStart = 0
              /\ body.pointsFormula = "rated" =>
                   ses.pointsFormula = "rated" /\ ses.pointsStart = Pts(1500)
              /\ body.pointsFormula = "" =>
                   ses.pointsFormula = "rated" /\ ses.pointsStart = Pts(1500)
     ]_vars

\* A dc session that starts at 0 was created after a rated session that
\* starts at 1500.
CreatedWithDefaults ==
  /\ Succeeded("create")
  /\ sessions[last.sid].pointsFormula = "dc"
  /\ sessions[last.sid].pointsStart = 0
  /\ \E o \in DOMAIN sessions \ {last.sid} :
       sessions[o].pointsFormula = "rated" /\ sessions[o].pointsStart = Pts(1500)

\* The edit bodies that carry no customPointsAfter.
PlainEditBodies == {b \in EditBodies({"1st"}) : b.customPointsAfter = Undefined}

\* C18. Edit without override does not recompute: an edit that carries no
\* customPointsAfter writes the deck, opp, result and turn it carries to the
\* target match and nothing else: the pointsBefore, pointsAfter and
\* customPointsAfter of the target and every other match are as they were,
\* also when the result changed.
EditWithoutOverride ==
  [][(last'.op = "edit" /\ last'.status = 200 /\ last'.custom = Undefined) =>
       LET s == last'.sid
           i == last'.idx
           old == sessions[s].matches
           new == sessions'[s].matches
       IN /\ Len(new) = Len(old)
          /\ \A j \in 1..Len(old) :
               /\ new[j].pointsBefore = old[j].pointsBefore
               /\ new[j].pointsAfter = old[j].pointsAfter
               /\ new[j].customPointsAfter = old[j].customPointsAfter
               /\ j # i => new[j] = old[j]
          /\ \A body \in PlainEditBodies :
               UpdateMatch(sessions[s].user, s, i, body, "none") =>
                 /\ new[i].deck = IF body.deck = "" THEN old[i].deck ELSE body.deck
                 /\ new[i].opp = IF body.opp = "" THEN old[i].opp ELSE body.opp
                 /\ new[i].result
                      = IF body.result = "" THEN old[i].result ELSE body.result
                 /\ new[i].turn = IF body.turn = "" THEN old[i].turn ELSE body.turn
     ]_vars

\* An edit without override has left the first of two formula-scored matches
\* with a result its points do not follow from, and the match after it with
\* the points it had.
EditedResultOnly ==
  /\ Succeeded("edit")
  /\ last.custom = Undefined
  /\ last.idx = 1
  /\ LET ses == sessions[last.sid]
         ms == ses.matches
     IN /\ Len(ms) = 2
        /\ ms[1].customPointsAfter = Undefined
        /\ ms[2].customPointsAfter = Undefined
        /\ ms[1].pointsBefore = ses.pointsStart
        /\ ms[1].pointsAfter # ScoringRule(ms[1].pointsBefore, ms[1].result, ses.pointsFormula)
        /\ ms[2].pointsBefore = ms[1].pointsAfter
        /\ ms[2].pointsAfter = ScoringRule(ms[2].pointsBefore, ms[2].result, ses.pointsFormula)

\* The last step is not one of the given request with a save that fails.
NotWithFailingSave(op, u, s, matchId, body) ==
  \A fault \in SaveFaults \ {"none"} :
    IF op = "append" THEN ~ AddMatch(u, s, body, fault)
    ELSE IF op = "edit" THEN ~ UpdateMatch(u, s, matchId, body, fault)
    ELSE IF op = "delete" THEN ~ DeleteMatch(u, s, matchId, fault)
    ELSE ~ ClearMatches(u, s, fault)

\* C20. Failed persistence: when the save at the end of an append, edit,
\* delete or clear fails, the operation answers with an error (500): no step
\* that answers 200 or 201 is a step of a request whose save failed; and the
\* stored session is then identical to the stored session before the
\* operation: a step that answers 500 changes no stored session.
FailedSaveUnpersisted ==
  [][(last'.op \in {"append", "edit", "delete", "clear"}) =>
       /\ last'.status \in {200, 201} =>
            \A body \in AddBodies({"1st"}) \cup EditBodies({"1st"}) :
              NotWithFailingSave(last'.op, sessions[last'.sid].user, last'.sid,
                                 last'.idx, body)
       /\ last'.status = 500 => sessions' = sessions
     ]_vars

\* C22. Edit and delete frame: an edit of match i, or a delete at position k,
\* leaves every match before i (resp. k) entirely unchanged and leaves the
\* edited match's pointsBefore unchanged; of every other remaining match only
\* pointsBefore and pointsAfter may change: deck, opp, result, turn and
\* customPointsAfter are kept, and so is the relative order of the matches.
EditDeleteFrame ==
  [][/\ (last'.op = "edit" /\ last'.status = 200) =>
          LET s == last'.sid
              i == last'.idx
              old == sessions[s].matches
              new == sessions'[s].matches
          IN /\ Len(new) = Len(old)
             /\ \A j \in 1..(i - 1) : new[j] = old[j]
             /\ new[i].pointsBefore = old[i].pointsBefore
             /\ \A j \in (i + 1)..Len(old) : Payload(new[j]) = Payload(old[j])
     /\ (last'.op = "delete" /\ last'.status = 200) =>
          LET s == last'.sid
              k == last'.idx
              old == sessions[s].matches
              new == sessions'[s].matches
          IN /\ Len(new) = Len(old) - 1
             /\ \A j \in 1..(k - 1) : new[j] = old[j]
             /\ \A j \in k..Len(new) : Payload(new[j]) = Payload(old[j + 1])
    ]_vars

\* The second of three matches was edited with an override while the third
\* carries an override of its own.
EditedBeforeOverride ==
  /\ Succeeded("edit")
  /\ last.idx = 2
  /\ last.custom # Undefined
  /\ LET ms == sessions[last.sid].matches
     IN /\ Len(ms) = 3
        /\ ms[3].customPointsAfter # Undefined
        /\ ms[1].customPointsAfter = Undefined

\* Request bodies with a result or a turn outside its enum, complete and, for
\* edits, also without deck and opp.
InvalidEnumBodies ==
  LET complete == {[AnyBody EXCEPT !.result = "Draw"], [AnyBody EXCEPT !.turn = "3rd"]}
  IN complete \cup {[b EXCEPT !.deck = "", !.opp = ""] : b \in complete}

AppendDeleteRoundTrip ==
  [][(last'.op = "append" /\ last'.status = 201) =>
       LET s == last'.sid
           old == sessions[s].matches
           ses == sessions'[s]
           appended == FindIndex(ses.matches, last'.idx)
       IN /\ appended = Len(old) + 1
          /\ DeleteRecalc(ses.pointsFormula, ses.pointsStart,
                          Splice(ses.matches, appended), appended) = old
          /\ Validates(old)
     ]_vars

\* The last of three matches, appended after a match with an override, was
\* deleted again.
DeletedLastAppended ==
  /\ Succeeded("delete")
  /\ LET ms == sessions[last.sid].matches
     IN /\ Len(ms) = 2
        /\ last.idx = 3
        /\ ms[2].customPointsAfter # Undefined

\* -------------------------------------------------------------------------
\* Properties of the sessions of an account
\* -------------------------------------------------------------------------

\* Every session other than s is stored as it was, and no session appeared or
\* went away.
OthersKept(s) ==
  /\ DOMAIN sessions' = DOMAIN sessions
  /\ \A o \in DOMAIN sessions \ {s} : sessions'[o] = sessions[o]

\* The step is a match request of u addressed to session s.
AppendOrEditOf(u, s) ==
  \/ \E body \in AccountBodies : AddMatch(u, s, body, "none")
  \/ \E matchId \in 1..(MaxAccountMatches + 1), body \in AccountBodies :
       UpdateMatch(u, s, matchId, body, "none")

DeleteOrClearOf(u, s) ==
  \/ \E matchId \in 1..(MaxAccountMatches + 1) : DeleteMatch(u, s, matchId, "none")
  \/ ClearMatches(u, s, "none")

\* C21. Session isolation: an append, edit, delete or clear addressed to one
\* session never adds, removes, reorders or changes any match of any other
\* session, and an append or edit removes no match of the session it is
\* addressed to: a match stays in the session it was appended to until it is
\* deleted or its session is cleared.
SessionIsolation ==
  [][\/ sessions' = sessions
     \/ last'.op \notin {"append", "edit", "delete", "clear"}
     \/ \A u \in Users, s \in SessionIds :
          /\ AppendOrEditOf(u, s) =>
               /\ OthersKept(s)
               /\ Len(sessions'[s].matches) >= Len(sessions[s].matches)
          /\ DeleteOrClearOf(u, s) => OthersKept(s)]_vars

\* A match of one session was deleted while the other session, of the same
\* owner, holds a match.
DeletedBesideOtherSession ==
  /\ Succeeded("delete")
  /\ \E o \in DOMAIN sessions \ {last.sid} :
       /\ sessions[o].user = sessions[last.sid].user
       /\ Len(sessions[o].matches) = 1

\* C24. User aggregate follows the sessions: after every completed operation
\* that changes a user's sessions (match append, edit, delete and clear, and
\* also session delete and session deactivation through update), the user's
\* stats.totalMatches is the number of matches in that user's active sessions,
\* stats.wins the number of them with result Win, and stats.losses is
\* totalMatches - wins.
UserAggregateFollows ==
  \A u \in Users :
    LET all == MatchesOf(sessions, {s \in DOMAIN sessions :
                                     sessions[s].user = u /\ sessions[s].isActive})
        wins == Cardinality({i \in 1..Len(all) : all[i].result = "Win"})
    IN /\ users[u].totalMatches = Len(all)
       /\ users[u].wins = wins
       /\ users[u].losses = users[u].totalMatches - wins

ExplicitStartPoints ==
  [][(last'.op = "create" /\ last'.status = 201) =>
       \A u \in Users, body \in CreateBodies, fault \in SaveFaults :
         (body.pointsStart # Undefined /\ CreateSession(u, body, fault)) =>
           LET ses == sessions'[last'.sid]
           IN /\ ses.pointsStart = body.pointsStart.val
              /\ MatchData(ses, AnyBody).pointsBefore = body.pointsStart.val
     ]_vars

\* -------------------------------------------------------------------------
\* Properties of the votes
\* -------------------------------------------------------------------------

\* The types of the votes of user u among votes, one element per vote.
VotesOf(votes, u) == SelectSeq(votes, LAMBDA v : v.user = u)

\* C28. One vote per user: after any sequence of vote operations on a tier
\* item, each run to completion, the item holds at most one vote per user: a
\* first vote is added, voting the same type again removes the vote, voting
\* the other type switches it; the votes of the other users are kept, and the
\* stored score is likes minus dislikes after every vote.
OneVotePerUser ==
  [][\A u \in Users, t \in DOMAIN tierItems, vote \in VoteEnum :
       Vote(u, t, vote) =>
         LET old == tierItems[t].votes
             new == tierItems'[t].votes
             other == CHOOSE w \in VoteEnum : w # vote
         IN /\ last'.status = 200
            /\ \A o \in Users : Len(VotesOf(new, o)) <= 1
            /\ VotesOf(old, u) = <<>> => VotesOf(new, u) = <<[user |-> u, type |-> vote]>>
            /\ VotesOf(old, u) = <<[user |-> u, type |-> vote]>> => VotesOf(new, u) = <<>>
            /\ VotesOf(old, u) = <<[user |-> u, type |-> other]>> =>
                 VotesOf(new, u) = <<[user |-> u, type |-> vote]>>
            /\ \A o \in Users \ {u} : VotesOf(new, o) = VotesOf(old, o)
            /\ tierItems'[t].score
                 = Cardinality({i \in 1..Len(new) : new[i].type = "like"})
                     - Cardinality({i \in 1..Len(new) : new[i].type = "dislike"})
            /\ \A o \in DOMAIN tierItems \ {t} : tierItems'[o] = tierItems[o]
    ]_vars

\* A user took the only vote of an item back while the other item holds a
\* like and a dislike.
VoteTakenBack ==
  /\ last.op = "vote"
  /\ last.status = 200
  /\ tierItems[last.sid].votes = <<>>
  /\ \E o \in DOMAIN tierItems :
       /\ Len(tierItems[o].votes) = 2
       /\ tierItems[o].score = 0

\* -------------------------------------------------------------------------
\* Properties of the tournament registrations
\* -------------------------------------------------------------------------

\* C29. Tournament capacity: with maxParticipants set, a registration that
\* finds currentParticipants >= maxParticipants is rejected (tournament is
\* full) and leaves the count unchanged, every accepted registration
\* increases currentParticipants by exactly 1, and currentParticipants never
\* exceeds maxParticipants after any interleaving of concurrent register
\* requests.
TournamentCapacity ==
  [][\A c \in Clients :
       /\ \A t \in DOMAIN tournaments :
            (IsFull(tournaments[t]) /\ ~ tournaments[t].completed /\ RegisterLoad(c, t)) =>
              /\ last'.op = "register"
              /\ last'.status = 400
              /\ tournaments' = tournaments
              /\ loaded' = loaded
       /\ (RegisterSave(c) /\ tournaments[loaded[c].at].maxParticipants # 0) =>
            /\ last'.status = 200
            /\ tournaments'[last'.sid].currentParticipants
                 = tournaments[last'.sid].currentParticipants + 1
       /\ \A t \in DOMAIN tournaments' :
            tournaments'[t].maxParticipants # 0 =>
              tournaments'[t].currentParticipants <= tournaments'[t].maxParticipants
    ]_vars

\* -------------------------------------------------------------------------
\* Properties of the player statistics
\* -------------------------------------------------------------------------

\* C30. Recent matches: the recentMatches that the player-statistics read
\* returns are the player's 10 most recently recorded matches (the last 10 in
\* session and position order over the active sessions), most recent first,
\* or all of them when the player has fewer than 10, for every total, totals
\* above 20 included.
RecentMatchesLast ==
  recent.status = 200 =>
    LET u == recent.userId
        all == (IF sessions["s1"].user = u /\ sessions["s1"].isActive
                  THEN sessions["s1"].matches ELSE <<>>)
                 \o (IF sessions["s2"].user = u /\ sessions["s2"].isActive
                       THEN sessions["s2"].matches ELSE <<>>)
        n == Len(all)
        k == IF n < 10 THEN n ELSE 10
    IN /\ Len(recent.recentMatches) = k
       /\ \A i \in 1..k :
            recent.recentMatches[i]
              = [deck |-> all[n + 1 - i].deck, opponent |-> all[n + 1 - i].opp,
                 result |-> all[n + 1 - i].result, date |-> all[n + 1 - i].createdAt]

====
